---- MODULE Spec2Model ----
(***************************************************************************)
(* A model of the rain animation of src/src/main.rs: four systems run once *)
(* per frame over a store of Drop entities, a Background entity and the    *)
(* Uniforms asset table.                                                    *)
(*                                                                         *)
(* Lengths are integers; every window dimension of the model is even, so   *)
(* the halving of the source (width / 2.) is exact, as it is on floats.    *)
(* Time is counted in quanta of half a timer period: the 0.0001 s of the   *)
(* two timers is 2 quanta.  Angles are in milliradians.                    *)
(***************************************************************************)
EXTENDS Integers, Sequences, FiniteSets, TLC

\* ---------------------------------------------------------------- bounds
MaxSizeK == 2        \* window sizes are (2, 50), (4, 100), ..., (2k, 50k)
MaxDelta == 2        \* a frame's delta is 0 .. MaxDelta quanta
MaxElapsed == 3      \* frames stop before a timer accumulates more
MaxEntities == 15    \* entity ids handed out to drops
MaxPending == 2      \* resize notifications between two frames
RngMod == 2          \* the random generator has RngMod states
MaxDuration == 3     \* TimerSpec: durations 1 .. MaxDuration
MaxTimerDelta == 6   \* TimerSpec: a tick's delta is 0 .. MaxTimerDelta
MaxTotal == 9        \* TimerSpec: the deltas sum to at most MaxTotal

\* ------------------------------------------------------ program constants
SpawnDuration == 2       \* Timer::from_seconds(0.0001, true)
MoveDuration == 2        \* Timer::from_seconds(0.0001, true)
BatchSize == 5           \* for _ in 0..5
DropWidth == 2           \* Vec2::new(2., drop_height)
MinDropHeight == 25      \* rng.gen_range(25.0..75.)
MaxDropHeight == 75
DropRotation == -100     \* Quat::from_rotation_z(-0.1)
FallY == 50              \* drop.translation.y -= 50.
FallX == 5               \* drop.translation.x -= 5.
BackgroundEntity == 1    \* the entity spawned by setup (the camera is 0)
UniformHandle == 1       \* the handle uniforms.add returns in setup
FirstDropEntity == 2

Sizes == {<<2 * k, 50 * k>> : k \in 1..MaxSizeK}

\* The entity ids of drops: one batch more than five drops for every 50
\* units of the tallest window of Sizes and two batches on top, and at least
\* the entity bound of Spec.
EntityLimit ==
    IF BatchSize * (MaxSizeK + 3) > MaxEntities
    THEN BatchSize * (MaxSizeK + 3) ELSE MaxEntities
NoWindow == [width |-> 0, height |-> 0, exists |-> FALSE]
Window(w, h) == [width |-> w, height |-> h, exists |-> TRUE]

VARIABLES
    windows,            \* Windows: the primary window, or NoWindow
    time_delta,         \* Time: delta_seconds of the running frame
    spawn_timer,        \* SpawnDropTimer
    move_timer,         \* MoveDropTimer
    rng,                \* SmallRng
    drops,              \* the entities with the Drop component: id -> record
    next_entity,        \* the next entity id Commands reserves
    commands,           \* the Commands queued in the running frame
    backgrounds,        \* the entities with the Background component
    uniforms,           \* Assets<Uniforms>: handle -> record
    events,             \* Events<WindowResized>, in arrival order
    last_event_count,   \* the EventReader's position in events
    pc,                 \* the system that runs next, "idle" between frames
    t_timer, t_duration, t_total, t_fires, t_small   \* TimerSpec's timer

progvars == <<windows, time_delta, spawn_timer, move_timer, rng, drops,
              next_entity, commands, backgrounds, uniforms, events,
              last_event_count, pc>>
timervars == <<t_timer, t_duration, t_total, t_fires, t_small>>
vars == <<progvars, timervars>>

\* ----------------------------------------------------------------- Timer
NewTimer == [elapsed |-> 0, just_finished |-> FALSE]

\* A timer that forgets the remainder when it fires.
TickResetToZero(timer, delta, duration) ==
    LET e == timer.elapsed + delta
    IN  IF e >= duration
        THEN [elapsed |-> 0, just_finished |-> TRUE]
        ELSE [elapsed |-> e, just_finished |-> FALSE]

\* A timer whose flag, once set, stays set.
TickStickyFlag(timer, delta, duration) ==
    LET e == timer.elapsed + delta
    IN  IF e >= duration
        THEN [elapsed |-> e - duration, just_finished |-> TRUE]
        ELSE [elapsed |-> e, just_finished |-> timer.just_finished]

\* Timer::tick for a repeating timer: the delta is added; at or past the
\* duration the timer fires and one duration is taken off, the rest is kept.
Tick(timer, delta, duration) ==
    LET e == timer.elapsed + delta
    IN  IF e >= duration
        THEN [elapsed |-> e - duration, just_finished |-> TRUE]
        ELSE [elapsed |-> e, just_finished |-> FALSE]

\* ------------------------------------------------------------------- rng
\* SmallRng: a deterministic generator whose seed comes from entropy.
RngNext(s) == (s + 1) % RngMod

\* gen_range(lo..hi): lo + (hi - lo) * u for the unit sample u = s / RngMod.
GenRange(lo, hi, s) == lo + ((hi - lo) * s) \div RngMod

\* ----------------------------------------------------------------- setup
\* A setup that stores the full window size.
SetupUniformFullSize(w, h) == [size |-> <<w, h>>]

SetupUniform(w, h) == [size |-> <<w \div 2, h \div 2>>]

SetupBackground(w, h) ==
    [sprite |-> <<w \div 2, h \div 2>>,
     scale |-> <<w \div 2, h \div 2>>,
     uniform |-> UniformHandle]

ProgInit ==
    /\ \E size \in Sizes :
         /\ windows = Window(size[1], size[2])
         /\ uniforms = (UniformHandle :> SetupUniform(size[1], size[2]))
         /\ backgrounds = (BackgroundEntity :> SetupBackground(size[1], size[2]))
    /\ time_delta = 0
    /\ spawn_timer = NewTimer
    /\ move_timer = NewTimer
    /\ rng \in 0..(RngMod - 1)
    /\ drops = << >>
    /\ next_entity = FirstDropEntity
    /\ commands = << >>
    /\ events = << >>
    /\ last_event_count = 0
    /\ pc = "idle"

TimerIdle ==
    /\ t_timer = NewTimer
    /\ t_duration = 1
    /\ t_total = 0
    /\ t_fires = 0
    /\ t_small = TRUE

Init == ProgInit /\ TimerIdle

\* ------------------------------------------------------------------ host
\* The window substrate resizes the primary window between two frames and
\* sends one WindowResized per resize.
WindowResized(w, h) ==
    /\ pc = "idle"
    /\ windows.exists
    /\ Len(events) - last_event_count < MaxPending
    /\ windows' = Window(w, h)
    /\ events' = Append(events, [width |-> w, height |-> h])
    /\ UNCHANGED <<time_delta, spawn_timer, move_timer, rng, drops, next_entity,
                   commands, backgrounds, uniforms, last_event_count, pc>>
    /\ UNCHANGED timervars

\* The primary window goes away: Windows::get_primary returns None from now on.
WindowClosed ==
    /\ pc = "idle"
    /\ windows.exists
    /\ windows' = NoWindow
    /\ UNCHANGED <<time_delta, spawn_timer, move_timer, rng, drops, next_entity,
                   commands, backgrounds, uniforms, events, last_event_count, pc>>
    /\ UNCHANGED timervars

\* The entity allocator hands out the ids in turn and comes back to the ids
\* of despawned entities.
NextEntity(e) ==
    IF e + 1 >= FirstDropEntity + EntityLimit THEN FirstDropEntity ELSE e + 1

RECURSIVE BlockFree(_, _)
BlockFree(e, n) ==
    IF n = 0 THEN TRUE
    ELSE e \notin DOMAIN drops /\ BlockFree(NextEntity(e), n - 1)

\* App::run starts the update of a frame whose delta_seconds is delta.
BeginFrame(delta) ==
    /\ pc = "idle"
    /\ spawn_timer.elapsed + delta <= MaxElapsed
    /\ move_timer.elapsed + delta <= MaxElapsed
    /\ Tick(spawn_timer, delta, SpawnDuration).just_finished
         => next_entity + BatchSize <= FirstDropEntity + MaxEntities
    /\ time_delta' = delta
    /\ pc' = "spawn_drop"
    /\ UNCHANGED <<windows, spawn_timer, move_timer, rng, drops, next_entity,
                   commands, backgrounds, uniforms, events, last_event_count>>
    /\ UNCHANGED timervars

\* ------------------------------------------------------------ spawn_drop
NoBundle == [x |-> 0, y |-> 0, rotation |-> 0, width |-> 0, height |-> 0]

\* The SpriteBundle of one drop: sprite size, translation and rotation.
DropBundle(x, drop_height, window) ==
    [x |-> x,
     y |-> window.height \div 2,
     rotation |-> DropRotation,
     width |-> DropWidth,
     height |-> drop_height]

\* A draw over twice the width of the window.
DrawXFullWidth(window, s) == GenRange(-window.width, window.width, s)

DrawX(window, s) == GenRange((-window.width) \div 2, window.width \div 2, s)
DrawHeight(s) == GenRange(MinDropHeight, MaxDropHeight, s)

\* The loop of spawn_drop: n more drops, from generator state s and entity
\* id e; the result is the queue, the generator and the next entity id.
RECURSIVE SpawnLoop(_, _, _, _, _)
SpawnLoop(n, s, e, window, queue) ==
    IF n = 0
    THEN [queue |-> queue, rng |-> s, next_entity |-> e]
    ELSE LET x == DrawX(window, s)
             s1 == RngNext(s)
             drop_height == DrawHeight(s1)
             s2 == RngNext(s1)
             cmd == [op |-> "spawn", entity |-> e,
                     bundle |-> DropBundle(x, drop_height, window)]
         IN  SpawnLoop(n - 1, s2, NextEntity(e), window, Append(queue, cmd))

\* A spawn_drop whose drops enter the store at once.
spawn_drop_Immediate ==
    /\ pc = "spawn_drop"
    /\ LET timer == Tick(spawn_timer, time_delta, SpawnDuration)
       IN  /\ spawn_timer' = timer
           /\ IF ~timer.just_finished
              THEN /\ pc' = "make_drops_drop"
                   /\ UNCHANGED <<rng, next_entity, drops>>
              ELSE IF ~windows.exists
              THEN /\ pc' = "panicked"
                   /\ UNCHANGED <<rng, next_entity, drops>>
              ELSE LET r == SpawnLoop(BatchSize, rng, next_entity, windows, << >>)
                   IN  /\ drops' = [id \in DOMAIN drops \cup
                                       {r.queue[i].entity : i \in 1..Len(r.queue)} |->
                                     IF id \in DOMAIN drops THEN drops[id]
                                     ELSE r.queue[id - next_entity + 1].bundle]
                       /\ rng' = r.rng
                       /\ next_entity' = r.next_entity
                       /\ pc' = "make_drops_drop"
    /\ UNCHANGED <<windows, time_delta, move_timer, commands, backgrounds,
                   uniforms, events, last_event_count>>
    /\ UNCHANGED timervars

spawn_drop ==
    /\ pc = "spawn_drop"
    /\ LET timer == Tick(spawn_timer, time_delta, SpawnDuration)
       IN  /\ spawn_timer' = timer
           /\ IF ~timer.just_finished
              THEN /\ pc' = "make_drops_drop"
                   /\ UNCHANGED <<rng, next_entity, commands>>
              ELSE IF ~windows.exists
              THEN /\ pc' = "panicked"      \* get_primary().unwrap() on None
                   /\ UNCHANGED <<rng, next_entity, commands>>
              ELSE LET r == SpawnLoop(BatchSize, rng, next_entity, windows, commands)
                   IN  /\ commands' = r.queue
                       /\ rng' = r.rng
                       /\ next_entity' = r.next_entity
                       /\ pc' = "make_drops_drop"
    /\ UNCHANGED <<windows, time_delta, move_timer, drops, backgrounds,
                   uniforms, events, last_event_count>>
    /\ UNCHANGED timervars

\* ------------------------------------------------------- make_drops_drop
\* A move that only falls.
MoveDropStraight(drop) == [drop EXCEPT !.y = @ - FallY]

\* A move that also stretches the sprite.
MoveDropStretching(drop) ==
    [drop EXCEPT !.y = @ - FallY, !.x = @ - FallX, !.height = @ + 1]

MoveDrop(drop) == [drop EXCEPT !.y = @ - FallY, !.x = @ - FallX]

\* A move on every frame, whatever the timer says.
ShouldMoveAlways(timer) == TRUE

\* No move on any frame.
ShouldMoveNever(timer) == FALSE

\* if timer.0.tick(..).just_finished()
ShouldMove(timer) == timer.just_finished

\* A make_drops_drop that ticks the spawn timer as well.
make_drops_drop_BothTimers ==
    /\ pc = "make_drops_drop"
    /\ LET timer == Tick(move_timer, time_delta, MoveDuration)
       IN  /\ move_timer' = timer
           /\ IF ShouldMove(timer)
              THEN drops' = [id \in DOMAIN drops |-> MoveDrop(drops[id])]
              ELSE drops' = drops
    /\ spawn_timer' = Tick(spawn_timer, time_delta, SpawnDuration)
    /\ pc' = "despawn_drops"
    /\ UNCHANGED <<windows, time_delta, rng, next_entity, commands,
                   backgrounds, uniforms, events, last_event_count>>
    /\ UNCHANGED timervars

\* A move timer with a longer duration than the spawn timer.
make_drops_drop_SlowTimer ==
    /\ pc = "make_drops_drop"
    /\ LET timer == Tick(move_timer, time_delta, MoveDuration + 1)
       IN  /\ move_timer' = timer
           /\ IF ShouldMove(timer)
              THEN drops' = [id \in DOMAIN drops |-> MoveDrop(drops[id])]
              ELSE drops' = drops
    /\ pc' = "despawn_drops"
    /\ UNCHANGED <<windows, time_delta, spawn_timer, rng, next_entity, commands,
                   backgrounds, uniforms, events, last_event_count>>
    /\ UNCHANGED timervars

make_drops_drop ==
    /\ pc = "make_drops_drop"
    /\ LET timer == Tick(move_timer, time_delta, MoveDuration)
       IN  /\ move_timer' = timer
           /\ IF ShouldMove(timer)
              THEN drops' = [id \in DOMAIN drops |-> MoveDrop(drops[id])]
              ELSE drops' = drops
    /\ pc' = "despawn_drops"
    /\ UNCHANGED <<windows, time_delta, spawn_timer, rng, next_entity, commands,
                   backgrounds, uniforms, events, last_event_count>>
    /\ UNCHANGED timervars

\* --------------------------------------------------------- despawn_drops
\* A reaper that also takes the drops on the bottom edge.
BelowOrOnBottom(drop, window) == drop.y <= (-window.height) \div 2

\* A reaper that compares with the full height.
BelowFullHeight(drop, window) == drop.y < -window.height

\* A reaper that lets a drop fall one step further.
BelowBottomOneLate(drop, window) ==
    drop.y + FallY < (-window.height) \div 2

BelowBottom(drop, window) == drop.y < (-window.height) \div 2

\* The entity ids of drops, in ascending order.
DropIds == [i \in 1..EntityLimit |-> FirstDropEntity + i - 1]

despawn_drops ==
    /\ pc = "despawn_drops"
    /\ IF ~windows.exists
       THEN /\ pc' = "panicked"             \* get_primary().unwrap() on None
            /\ UNCHANGED commands
       ELSE LET gone(id) == id \in DOMAIN drops /\ BelowBottom(drops[id], windows)
                ids == SelectSeq(DropIds, gone)
            IN  /\ commands' = commands \o
                     [i \in 1..Len(ids) |->
                        [op |-> "despawn", entity |-> ids[i], bundle |-> NoBundle]]
                /\ pc' = "update_background"
    /\ UNCHANGED <<windows, time_delta, spawn_timer, move_timer, rng, drops,
                   next_entity, backgrounds, uniforms, events, last_event_count>>
    /\ UNCHANGED timervars

\* ----------------------------------------------------- update_background
\* A resize that adds the new size to the scale.
ResizedBackgroundAdding(background, event) ==
    [background EXCEPT !.scale = <<@[1] + event.width, @[2] + event.height>>]

ResizedBackground(background, event) ==
    [background EXCEPT !.scale = <<event.width, event.height>>]

ResizedUniform(event) == [size |-> <<event.width, event.height>>]

\* A resize that adds a record to the asset table instead of setting one.
OnWindowResizedAdding(st, event) ==
    [backgrounds |-> [e \in DOMAIN st.backgrounds |->
                        ResizedBackground(st.backgrounds[e], event)],
     uniforms |-> [id \in 1..(Cardinality(DOMAIN st.uniforms) + 1) |->
                     ResizedUniform(event)]]

\* The body of the loop over the events: every Background, then every id
\* of the asset table.
OnWindowResized(st, event) ==
    [backgrounds |-> [e \in DOMAIN st.backgrounds |->
                        ResizedBackground(st.backgrounds[e], event)],
     uniforms |-> [id \in DOMAIN st.uniforms |-> ResizedUniform(event)]]

\* A loop that stops after the first event.
ResizeLoopFirstOnly(st, unread) ==
    IF unread = << >> THEN st ELSE OnWindowResized(st, Head(unread))

RECURSIVE ResizeLoop(_, _)
ResizeLoop(st, unread) ==
    IF unread = << >> THEN st
    ELSE ResizeLoop(OnWindowResized(st, Head(unread)), Tail(unread))

Unread == SubSeq(events, last_event_count + 1, Len(events))

\* Events::update drops the older buffer: the newest event stays readable.
Retained == IF events = << >> THEN << >> ELSE <<events[Len(events)]>>

update_background ==
    /\ pc = "update_background"
    /\ LET st == ResizeLoop([backgrounds |-> backgrounds, uniforms |-> uniforms],
                            Unread)
       IN  /\ backgrounds' = st.backgrounds
           /\ uniforms' = st.uniforms
    /\ events' = Retained
    /\ last_event_count' = Len(Retained)
    /\ pc' = "apply_commands"
    /\ UNCHANGED <<windows, time_delta, spawn_timer, move_timer, rng, drops,
                   next_entity, commands>>
    /\ UNCHANGED timervars

\* -------------------------------------------------------- apply_commands
\* The end of the update stage: the queued Commands run in queue order.
ApplyCommand(store, cmd) ==
    IF cmd.op = "spawn"
    THEN [id \in DOMAIN store \cup {cmd.entity} |->
            IF id = cmd.entity THEN cmd.bundle ELSE store[id]]
    ELSE [id \in DOMAIN store \ {cmd.entity} |-> store[id]]

RECURSIVE ApplyLoop(_, _)
ApplyLoop(store, queue) ==
    IF queue = << >> THEN store
    ELSE ApplyLoop(ApplyCommand(store, Head(queue)), Tail(queue))

apply_commands ==
    /\ pc = "apply_commands"
    /\ drops' = ApplyLoop(drops, commands)
    /\ commands' = << >>
    /\ pc' = "idle"
    /\ UNCHANGED <<windows, time_delta, spawn_timer, move_timer, rng, next_entity,
                   backgrounds, uniforms, events, last_event_count>>
    /\ UNCHANGED timervars

Next ==
    \/ \E size \in Sizes : WindowResized(size[1], size[2])
    \/ WindowClosed
    \/ \E delta \in 0..MaxDelta : BeginFrame(delta)
    \/ spawn_drop
    \/ make_drops_drop
    \/ despawn_drops
    \/ update_background
    \/ apply_commands

Spec == Init /\ [][Next]_vars

\* -------------------------------------------------------------- LiveSpec
\* The program running without end: the window stays, the ids of despawned
\* drops are used again, every started frame runs to its end and frames
\* with a positive delta keep arriving.  At most one resize separates two
\* frames.
LiveWindowResized(w, h) ==
    /\ Unread = << >>
    /\ WindowResized(w, h)

LiveBeginFrame(delta) ==
    /\ pc = "idle"
    /\ spawn_timer.elapsed + delta <= MaxElapsed
    /\ move_timer.elapsed + delta <= MaxElapsed
    /\ Tick(spawn_timer, delta, SpawnDuration).just_finished
         => BlockFree(next_entity, BatchSize)
    /\ time_delta' = delta
    /\ pc' = "spawn_drop"
    /\ UNCHANGED <<windows, spawn_timer, move_timer, rng, drops, next_entity,
                   commands, backgrounds, uniforms, events, last_event_count>>
    /\ UNCHANGED timervars

PositiveFrame == \E delta \in 1..MaxDelta : LiveBeginFrame(delta)

RunFrame ==
    \/ spawn_drop
    \/ make_drops_drop
    \/ despawn_drops
    \/ update_background
    \/ apply_commands

LiveNext ==
    \/ \E size \in Sizes : LiveWindowResized(size[1], size[2])
    \/ \E delta \in 0..MaxDelta : LiveBeginFrame(delta)
    \/ RunFrame

LiveSpec ==
    /\ Init
    /\ [][LiveNext]_vars
    /\ WF_vars(RunFrame)
    /\ SF_vars(PositiveFrame)

\* ------------------------------------------------------------- TimerSpec
\* One repeating timer of duration t_duration, ticked by arbitrary deltas:
\* t_total is the sum of the deltas, t_fires the number of ticks after which
\* just_finished was read true, t_small whether every delta was below the
\* duration.
ProgFrozen ==
    /\ windows = Window(2, 50)
    /\ uniforms = (UniformHandle :> SetupUniform(2, 50))
    /\ backgrounds = (BackgroundEntity :> SetupBackground(2, 50))
    /\ time_delta = 0
    /\ spawn_timer = NewTimer
    /\ move_timer = NewTimer
    /\ rng = 0
    /\ drops = << >>
    /\ next_entity = FirstDropEntity
    /\ commands = << >>
    /\ events = << >>
    /\ last_event_count = 0
    /\ pc = "idle"

TimerInit ==
    /\ ProgFrozen
    /\ t_timer = NewTimer
    /\ t_duration \in 1..MaxDuration
    /\ t_total = 0
    /\ t_fires = 0
    /\ t_small = TRUE

TimerTick(delta) ==
    /\ t_total + delta <= MaxTotal
    /\ t_timer' = Tick(t_timer, delta, t_duration)
    /\ t_total' = t_total + delta
    /\ t_fires' = t_fires + (IF t_timer'.just_finished THEN 1 ELSE 0)
    /\ t_small' = (t_small /\ delta < t_duration)
    /\ UNCHANGED <<t_duration, progvars>>

TimerNext == \E delta \in 0..MaxTimerDelta : TimerTick(delta)

TimerSpec == TimerInit /\ [][TimerNext]_vars

\* ================================================================ claims
HalfOf(w, h) == <<w \div 2, h \div 2>>
AllSame(seq) == \A i \in 1..Len(seq) : seq[i] = seq[1]
ResizeState == [backgrounds |-> backgrounds, uniforms |-> uniforms]
ResizeStateNext == [backgrounds |-> backgrounds', uniforms |-> uniforms']

\* C1: once update_background has processed a resize notification (W, H),
\* every Uniform record's size is (W/2, H/2) and every Background's scale is
\* (W, H).  The code writes (W, H) into the Uniform records.
C1_ResizeConsistency ==
    last_event_count > 0 =>
        LET e == events[last_event_count]
        IN  /\ \A id \in DOMAIN uniforms :
                 uniforms[id].size = HalfOf(e.width, e.height)
            /\ \A b \in DOMAIN backgrounds :
                 backgrounds[b].scale = <<e.width, e.height>>

\* C2 as stated: whatever the deltas, the number of ticks that report
\* just_finished is floor(T / d).
C2_FireRateAnySplit == t_fires = t_total \div t_duration

\* C2, amended: the number of ticks that report just_finished is floor(T / d)
\* when every delta is below d, and never more than floor(T / d).
C2_FireRate ==
    /\ t_small => t_fires = t_total \div t_duration
    /\ t_fires <= t_total \div t_duration

C2_Witness ==
    /\ t_small
    /\ t_duration = 3
    /\ t_total = 7
    /\ t_fires = 2

\* C3: a spawn_drop whose timer fires queues exactly 5 spawns, each with x in
\* [-W/2, W/2), y = H/2, width 2 and height in [25, 75); one whose timer
\* does not fire queues nothing; the queued drops, and no others, are created
\* when the commands are applied.
C3_SpawnBounds ==
    [][/\ (pc = "spawn_drop" /\ windows.exists) =>
            IF spawn_timer'.just_finished
            THEN /\ Len(commands') = Len(commands) + 5
                 /\ SubSeq(commands', 1, Len(commands)) = commands
                 /\ \A i \in (Len(commands) + 1)..Len(commands') :
                      LET c == commands'[i]
                      IN  /\ c.op = "spawn"
                          /\ c.entity \notin DOMAIN drops
                          /\ \A j \in (Len(commands) + 1)..Len(commands') :
                               commands'[j].entity = c.entity => j = i
                          /\ 2 * c.bundle.x >= -windows.width
                          /\ 2 * c.bundle.x < windows.width
                          /\ 2 * c.bundle.y = windows.height
                          /\ c.bundle.width = 2
                          /\ c.bundle.height >= 25
                          /\ c.bundle.height < 75
            ELSE commands' = commands
       /\ pc = "apply_commands" =>
            LET spawns == {i \in 1..Len(commands) : commands[i].op = "spawn"}
            IN  /\ DOMAIN drops' \ DOMAIN drops = {commands[i].entity : i \in spawns}
                /\ \A i \in spawns : drops'[commands[i].entity] = commands[i].bundle
      ]_vars

C3_Witness ==
    /\ pc = "idle"
    /\ spawn_timer.just_finished
    /\ next_entity = FirstDropEntity + 10
    /\ \A id \in (FirstDropEntity + 5)..(FirstDropEntity + 9) :
         id \in DOMAIN drops /\ 2 * drops[id].y = windows.height

\* C4: a reap cycle removes every drop with y < -H/2 and leaves every drop
\* with y >= -H/2 in the store, unchanged; despawn_drops itself only queues.
C4_ReaperCompleteness ==
    [][/\ pc = "despawn_drops" => drops' = drops
       /\ pc = "apply_commands" =>
            \A id \in DOMAIN drops :
                IF 2 * drops[id].y < -windows.height
                THEN id \notin DOMAIN drops'
                ELSE id \in DOMAIN drops' /\ drops'[id] = drops[id]
      ]_vars

C4_Witness ==
    /\ pc = "idle"
    /\ windows.exists
    /\ \E id \in FirstDropEntity..(next_entity - 1) : id \notin DOMAIN drops
    /\ \E id \in DOMAIN drops : 2 * drops[id].y = -windows.height

\* C5: a make_drops_drop whose timer stays below its duration after the
\* advance leaves every drop where it is.
C5_NoMotionWithoutFire ==
    [][(pc = "make_drops_drop" /\ move_timer.elapsed + time_delta < MoveDuration) =>
            /\ DOMAIN drops' = DOMAIN drops
            /\ \A id \in DOMAIN drops :
                 drops'[id].x = drops[id].x /\ drops'[id].y = drops[id].y
      ]_vars

C5_Witness ==
    /\ pc = "despawn_drops"
    /\ time_delta = 1
    /\ ~move_timer.just_finished
    /\ move_timer.elapsed = 1
    /\ drops # << >>

\* C6: a resize notification equal to the one processed last changes neither
\* a Background's scale nor the Uniform table, and a cycle that reads the same
\* notification several times leaves what one processing of it leaves.
C6_ResizeIdempotent ==
    [][(pc = "update_background" /\ Unread # << >> /\ AllSame(Unread)) =>
            /\ (last_event_count > 0 /\ events[last_event_count] = Unread[1])
                  => (backgrounds' = backgrounds /\ uniforms' = uniforms)
            /\ ResizeStateNext = OnWindowResized(ResizeState, Unread[1])
            /\ DOMAIN uniforms' = DOMAIN uniforms
      ]_vars

C6_Witness ==
    /\ pc = "update_background"
    /\ last_event_count = 1
    /\ Len(Unread) = 2
    /\ AllSame(events)
    /\ \A b \in DOMAIN backgrounds :
         backgrounds[b].scale = <<events[1].width, events[1].height>>

\* C7: until the first resize notification is processed the Uniform record
\* holds the half-dimensions of the startup window, and no step other than
\* update_background changes the Uniform table.
C7_UniformBeforeResize ==
    /\ [](last_event_count = 0 =>
            /\ \A id \in DOMAIN uniforms :
                 uniforms[id].size = backgrounds[BackgroundEntity].sprite
            /\ (events = << >> /\ windows.exists) =>
                 \A id \in DOMAIN uniforms :
                   uniforms[id].size = HalfOf(windows.width, windows.height))
    /\ [][pc # "update_background" => uniforms' = uniforms]_vars

C7_Witness ==
    /\ pc = "update_background"
    /\ last_event_count = 0
    /\ Unread # << >>
    /\ drops # << >>
    /\ \A id \in DOMAIN uniforms :
         uniforms[id].size # HalfOf(windows.width, windows.height)

\* C8: without a primary window, spawn_drop (on a fire) and despawn_drops do
\* nothing and the program does not panic.  The code unwraps get_primary().
C8_MissingViewportGuard ==
    [][(~windows.exists /\ pc \in {"spawn_drop", "despawn_drops"}) =>
            /\ pc' # "panicked"
            /\ drops' = drops
            /\ commands' = commands
      ]_vars

\* C9: a make_drops_drop whose timer fires moves every drop by exactly
\* (-5, -50), once, wherever the drop is, and changes nothing else of it.
C9_MotionStep ==
    [][(pc = "make_drops_drop" /\ move_timer'.just_finished) =>
            /\ DOMAIN drops' = DOMAIN drops
            /\ \A id \in DOMAIN drops :
                 drops'[id] = [drops[id] EXCEPT !.x = @ - 5, !.y = @ - 50]
      ]_vars

C9_Witness ==
    /\ pc = "despawn_drops"
    /\ move_timer.just_finished
    /\ \E id \in DOMAIN drops :
         /\ 2 * (drops[id].x + 5) < -windows.width
         /\ 2 * (drops[id].y + 50) = -windows.height

\* C10: update_background reads every unread notification of the cycle, and
\* the scale and the Uniform records it leaves are those the last notification
\* alone would leave.
C10_LastResizeWins ==
    [][(pc = "update_background" /\ Unread # << >>) =>
            LET last == Unread[Len(Unread)]
            IN  /\ ResizeStateNext = OnWindowResized(ResizeState, last)
                /\ \A b \in DOMAIN backgrounds' :
                     backgrounds'[b].scale = <<last.width, last.height>>
                /\ last_event_count' = Len(events')
                /\ events'[last_event_count'] = last
      ]_vars

C10_Witness ==
    /\ pc = "update_background"
    /\ Len(Unread) >= 2
    /\ Unread[1] # Unread[Len(Unread)]
    /\ \A b \in DOMAIN backgrounds :
         backgrounds[b].scale # <<Unread[Len(Unread)].width, Unread[Len(Unread)].height>>

\* C11: the rotation and the extent of a drop never change while it lives,
\* and its position changes in no step but make_drops_drop.
C11_ParticleImmutable ==
    [][\A id \in DOMAIN drops \cap DOMAIN drops' :
          /\ drops'[id].rotation = drops[id].rotation
          /\ drops'[id].width = drops[id].width
          /\ drops'[id].height = drops[id].height
          /\ pc # "make_drops_drop" =>
                (drops'[id].x = drops[id].x /\ drops'[id].y = drops[id].y)
      ]_vars

C11_Witness ==
    /\ pc = "idle"
    /\ \E id \in DOMAIN drops :
         /\ 2 * (drops[id].y + 100) = windows.height
         /\ drops[id].rotation = -100
         /\ drops[id].width = 2
         /\ drops[id].height >= 25

\* C12: an advance by delta from accumulated a sets just_fired and leaves
\* a + delta - d when a + delta >= d, and clears just_fired and leaves
\* a + delta otherwise.
C12_TimerAdvance ==
    [][LET a == t_timer.elapsed
           delta == t_total' - t_total
       IN  IF a + delta >= t_duration
           THEN /\ t_timer'.just_finished
                /\ t_timer'.elapsed = a + delta - t_duration
           ELSE /\ ~t_timer'.just_finished
                /\ t_timer'.elapsed = a + delta
      ]_vars

C12_Witness ==
    /\ t_duration = 3
    /\ t_total = 8
    /\ t_fires = 2
    /\ t_timer.elapsed = 2
    /\ ~t_timer.just_finished

\* C13: spawn_drop advances the spawn timer by the frame's delta, leaves the
\* move timer and the drops alone and queues only when its own timer fired;
\* make_drops_drop advances the move timer, leaves the spawn timer and the
\* queue alone and moves only when its own timer fired; no other step
\* touches a timer.
C13_TimerIndependence ==
    [][/\ pc = "spawn_drop" =>
            /\ move_timer' = move_timer
            /\ drops' = drops
            /\ spawn_timer'.elapsed \in
                 {spawn_timer.elapsed + time_delta,
                  spawn_timer.elapsed + time_delta - SpawnDuration}
            /\ commands' # commands => spawn_timer'.just_finished
       /\ pc = "make_drops_drop" =>
            /\ spawn_timer' = spawn_timer
            /\ commands' = commands
            /\ next_entity' = next_entity
            /\ DOMAIN drops' = DOMAIN drops
            /\ move_timer'.elapsed \in
                 {move_timer.elapsed + time_delta,
                  move_timer.elapsed + time_delta - MoveDuration}
            /\ drops' # drops => move_timer'.just_finished
       /\ pc \notin {"spawn_drop", "make_drops_drop"} =>
            (spawn_timer' = spawn_timer /\ move_timer' = move_timer)
      ]_vars

C13_Witness ==
    /\ pc = "despawn_drops"
    /\ spawn_timer.just_finished
    /\ move_timer.just_finished
    /\ Len(commands) = 5
    /\ \E id \in DOMAIN drops : 2 * (drops[id].y + 50) = windows.height

\* C14: when a frame has ended, no drop of the store is below the bottom
\* edge of the window the frame ran with, whether or not a timer fired in it.
C14_NothingBelowAfterFrame ==
    (pc = "idle" /\ windows.exists /\ Unread = << >>) =>
        \A id \in DOMAIN drops : 2 * drops[id].y >= -windows.height

C14_Witness ==
    /\ pc = "apply_commands"
    /\ ~move_timer.just_finished
    /\ ~spawn_timer.just_finished
    /\ \E i \in 1..Len(commands) :
         /\ commands[i].op = "despawn"
         /\ commands[i].entity \in DOMAIN drops

\* What C15 keeps: the systems of a frame run one after the other in the
\* order spawn_drop, make_drops_drop, despawn_drops, update_background; each
\* writes only its own part; a drop spawned in a frame is neither moved nor
\* despawned in that frame.
C15_FrameOrder ==
    /\ pc = "idle" => pc' \in {"idle", "spawn_drop"}
    /\ pc = "spawn_drop" => (pc' \in {"make_drops_drop", "panicked"} /\ drops' = drops)
    /\ pc = "make_drops_drop" =>
         /\ pc' = "despawn_drops"
         /\ commands' = commands
         /\ DOMAIN drops' = DOMAIN drops
    /\ pc = "despawn_drops" =>
         /\ pc' \in {"update_background", "panicked"}
         /\ drops' = drops
         /\ SubSeq(commands', 1, Len(commands)) = commands
         /\ \A i \in (Len(commands) + 1)..Len(commands') :
              commands'[i].op = "despawn" /\ commands'[i].entity \in DOMAIN drops
    /\ pc = "update_background" =>
         (pc' = "apply_commands" /\ drops' = drops /\ commands' = commands)
    /\ pc = "apply_commands" =>
         /\ pc' = "idle"
         /\ \A i \in 1..Len(commands) :
              commands[i].op = "spawn" =>
                /\ commands[i].entity \notin DOMAIN drops
                /\ commands[i].entity \in DOMAIN drops'

\* C15 as stated: moreover no drop is both moved by make_drops_drop and
\* despawned by despawn_drops in one frame.
C15_ExclusivePerFrame ==
    [][/\ C15_FrameOrder
       /\ (pc = "despawn_drops" /\ move_timer.just_finished) => commands' = commands
      ]_vars

\* C15, amended: the systems run in a fixed order without interleaving, and
\* a drop spawned in a frame is touched by no other system in that frame; a
\* drop that make_drops_drop moved below the bottom edge is despawned by
\* despawn_drops in the same frame.
C15_SequentialAccess ==
    [][/\ C15_FrameOrder
       /\ (pc = "despawn_drops" /\ pc' # "panicked") =>
            \A id \in DOMAIN drops :
                (2 * drops[id].y < -windows.height) <=>
                (\E i \in (Len(commands) + 1)..Len(commands') :
                    commands'[i].entity = id)
      ]_vars

C15_Witness ==
    /\ pc = "apply_commands"
    /\ move_timer.just_finished
    /\ \E i \in 1..Len(commands) : commands[i].op = "spawn"
    /\ \E i \in 1..Len(commands) :
         /\ commands[i].op = "despawn"
         /\ 2 * (drops[commands[i].entity].y + 50) >= -windows.height

\* C16: the scale of the Background is the size of the window in every state
\* in which no resize notification waits to be read.  setup gives the
\* Background half the size of the window as its scale.
C16_BackgroundTracksViewport ==
    (windows.exists /\ Unread = << >>) =>
        \A b \in DOMAIN backgrounds :
            backgrounds[b].scale = <<windows.width, windows.height>>

\* C17: there is exactly one Background and exactly one Uniform record, the
\* one the Background refers to, and no queued despawn names the Background.
C17_SingleBackgroundSingleUniform ==
    /\ Cardinality(DOMAIN backgrounds) = 1
    /\ Cardinality(DOMAIN uniforms) = 1
    /\ \A b \in DOMAIN backgrounds : backgrounds[b].uniform \in DOMAIN uniforms
    /\ \A i \in 1..Len(commands) : commands[i].entity \notin DOMAIN backgrounds
    /\ DOMAIN drops \cap DOMAIN backgrounds = {}

C17_Witness ==
    /\ pc = "idle"
    /\ last_event_count > 0
    /\ Unread = << >>
    /\ move_timer.just_finished
    /\ drops # << >>
    /\ \E id \in FirstDropEntity..(next_entity - 1) : id \notin DOMAIN drops
    /\ \A b \in DOMAIN backgrounds :
         backgrounds[b].scale = <<windows.width, windows.height>>

\* C18: with frames of positive delta arriving for ever and the window
\* heights bounded, every drop that is in the store is removed from it.
C18_EveryDropReaped ==
    \A id \in FirstDropEntity..(FirstDropEntity + EntityLimit - 1) :
        []<>(id \notin DOMAIN drops)

C18_Witness ==
    /\ pc = "idle"
    /\ next_entity = FirstDropEntity + BatchSize
    /\ Cardinality(DOMAIN drops) > BatchSize
    /\ \A id \in FirstDropEntity..(FirstDropEntity + BatchSize - 1) :
         id \in DOMAIN drops /\ 2 * drops[id].y = windows.height

\* The number of moves a drop spawned at the top edge of the present window
\* has made, and the number of moves after which it is below the bottom edge.
Moves(drop) == (windows.height \div 2 - drop.y) \div FallY
Lifetime == windows.height \div FallY + 1

\* C19: while the window has never been resized (height H), a drop enters
\* the store at y = H/2 with no move made, is removed from the store exactly
\* by the end of the frame in which it has made floor(H/50) + 1 moves, never
\* earlier and never later, so never in the frame that spawns it, and its x
\* and y never increase.
C19_ExactLifetime ==
    [][(windows.exists /\ events = << >> /\ events' = << >>) =>
         /\ \A id \in DOMAIN drops :
              /\ Moves(drops[id]) <= Lifetime
              /\ pc = "idle" => Moves(drops[id]) < Lifetime
              /\ id \notin DOMAIN drops' <=>
                    (pc = "apply_commands" /\ Moves(drops[id]) = Lifetime)
              /\ id \in DOMAIN drops' =>
                    /\ drops'[id].y <= drops[id].y
                    /\ drops'[id].x <= drops[id].x
         /\ \A id \in DOMAIN drops' \ DOMAIN drops :
              /\ 2 * drops'[id].y = windows.height
              /\ pc = "apply_commands"
              /\ spawn_timer.just_finished]_vars

C19_Witness ==
    /\ windows.exists
    /\ events = << >>
    /\ windows.height = 2 * FallY
    /\ pc = "apply_commands"
    /\ \E i \in 1..Len(commands) :
         /\ commands[i].op = "despawn"
         /\ commands[i].entity \in DOMAIN drops
         /\ Moves(drops[commands[i].entity]) = Lifetime

\* C20: the spawn timer and the move timer hold the same accumulated time
\* and the same fired flag whenever both have been advanced the same number
\* of times, so they fire in the same frames; and while the window has never
\* been resized (height H) the store never holds more than
\* 5 * (floor(H/50) + 2) drops.
C20_LockstepPopulation ==
    /\ pc \notin {"make_drops_drop", "panicked"} => spawn_timer = move_timer
    /\ (windows.exists /\ events = << >>) =>
         Cardinality(DOMAIN drops) <=
             BatchSize * (windows.height \div FallY + 2)

C20_Witness ==
    /\ pc = "idle"
    /\ windows.exists
    /\ events = << >>
    /\ spawn_timer.just_finished
    /\ move_timer.just_finished
    /\ Cardinality(DOMAIN drops) = BatchSize * (windows.height \div FallY + 1)
    /\ next_entity < FirstDropEntity + BatchSize * (windows.height \div FallY + 1)

====
